---------------------------- MODULE Spec2Model ----------------------------
(***************************************************************************)
(* Speech-to-text pipeline of the interview platform:                      *)
(*   - the WebSocket audio relay of websocket_transcribe                   *)
(*     (app/routers/interviews.py: audio_reader, audio_generator and the   *)
(*     dispatch loop), and                                                 *)
(*   - STTService.transcribe_stream (app/services/stt_service.py), the     *)
(*     coordinator that drives successive recognizer connections.          *)
(*                                                                         *)
(* Time is counted in ticks of 10 seconds.  The recognizer and the client  *)
(* are the environment: frames, recognizer responses, connection ends and  *)
(* exceptions are chosen nondeterministically.                             *)
(***************************************************************************)
EXTENDS Integers, Sequences, FiniteSets, TLC

(***************************************************************************)
(* Bounds of the model (scaled-down parameters and caps on the inputs).    *)
(***************************************************************************)
\* number of audio frames the client sends at most
MaxFrames == 2
\* number of recognizer responses delivered in one session at most
MaxResponses == 1
\* number of recognizer connections opened in one session at most
MaxStreams == 2
\* max_duration_seconds of transcribe_stream, in ticks (the default is 24)
max_duration_seconds == 3
\* MAX_AUDIO_BYTES_PER_SESSION, scaled to the frame sizes of the model
MAX_AUDIO_BYTES_PER_SESSION == 3
\* number of request threads that call get_tts_service concurrently
MaxThreads == 3
\* number of languages in a voice catalogue at most
MaxCatalog == 3
\* the longest text given to _chunk_text alone is this many characters over the limit
MaxChunkOver == 3
\* MAX_TEXT_LENGTH of the TTS service, in characters (the default is 4000)
MAX_TEXT_LENGTH == 3
\* the longest input text is this many characters over MAX_TEXT_LENGTH
MaxOver == 1

(***************************************************************************)
(* Program constants, in ticks of 10 s.                                    *)
(***************************************************************************)
\* "max_duration_seconds - 10": the warning lead
WARN_LEAD == 1
\* "elapsed < 30" in the classification of a timeout message
TIMEOUT_NORMAL_LIMIT == 3
\* HEARTBEAT_INTERVAL = 30 s
HEARTBEAT_INTERVAL == 3
\* "len(clean_text) < 3" of detect_language, in characters
DETECT_MIN_LENGTH == 3
\* the 0.5 s added between the marks of two chunks, in milliseconds
INTER_CHUNK_GAP == 500

\* len(audio_chunk) of the frames the client sends
FrameSizes == {1, 2}
\* the max_bytes argument of transcribe_stream: the default, or a tighter one
MaxBytesChoices == {MAX_AUDIO_BYTES_PER_SESSION - 1, MAX_AUDIO_BYTES_PER_SESSION}

\* the queue's end-of-stream sentinel (None)
Sentinel == [id |-> 0, len |-> 0]

VARIABLES
    \* ---- client / transport
    ws_open,            \* the client has not disconnected
    nframes,            \* frames the client has sent so far (frame ids 1..nframes)
    \* ---- audio_reader (background task)
    reader_pc,          \* "unstarted" | "receiving" | "done"
    reader_total,       \* audio_reader's total_bytes_received
    idle,               \* time.time() - last_data_time, in ticks
    generator_done,     \* the nonlocal flag set in audio_reader's finally
    cancel_requested,   \* reader_task.cancel() was called and not yet delivered
    audio_queue,        \* asyncio.Queue contents
    sentinels_put,      \* history: how many times the sentinel was put on the queue
    idle_end,           \* history: the reader ended on the idle test
    late_frames,        \* history: frames put on the queue after the sentinel
    limit_msgs,         \* history: limit_exceeded messages sent to the client
    \* ---- audio_generator
    ag_pc,              \* "unstarted" | "running" | "closing" | "finished"
    \* ---- transcribe_stream
    is_available,       \* STTService.is_available and client is not None
    max_bytes,
    pc,                 \* "start" | "loop" | "streaming" | "done"
    stream_count,
    total_bytes_received,
    stream_bytes_received,
    clock,              \* time.time() - stream_start_time, in ticks
    elapsed,            \* the local variable elapsed of transcribe_stream (-1: unbound)
    req_pc,             \* request_generator: "none" | "active" | "ended"
    pending,            \* results of the current response not yet processed
    nresponses,         \* recognizer responses delivered so far
    connections,        \* history: recognizer connections opened so far
    yielded,            \* history: the TranscriptionResults of the latest yielding step
    yield_conn,         \* history: value of connections when they were yielded
    prev_number,        \* history: stream_number of the result yielded before them
    pulled,             \* history: ids of the frames pulled from the audio sequence
    forwarded,          \* history: frames sent to the recognizer
    gen_info,           \* history, of the current generation: limit_hit, warned,
                        \* gen_results, and once it is over cause and last_end; of
                        \* the session: budget_hit, fault_run, warnings, errors,
                        \* recognized (transcripts of the recognizer's results),
                        \* sent (transcripts handed to the dispatcher), and
                        \* src, the recognizer result yielded[1] was built from
                        \* (NoAlternatives when it was built from none)
    \* ---- websocket_transcribe
    handler_pc,         \* "init" | "dispatching" | "returned"
    \* ---- TTSService (app/services/tts_service.py)
    tts_pc,             \* "unconstructed" | "idle" | "synthesizing" | "returned"
    tts_service,        \* is_available (and client), voice_map, translate_client
    tts_request,        \* the arguments of the generate_speech call
    tts_call,           \* locals of generate_speech: language_code, voice_name, chunks,
                        \* chunk_results, and the texts sent to the provider
    tts_result,         \* the TTSResult returned
    tts_singleton       \* _tts_service_instance, the instances constructed so far, and
                        \* the threads calling get_tts_service

tts_vars == <<tts_pc, tts_service, tts_request, tts_call, tts_result, tts_singleton>>

vars == <<tts_vars, ws_open, nframes, reader_pc, reader_total, idle, generator_done,
          cancel_requested, audio_queue, sentinels_put, idle_end, late_frames, limit_msgs, ag_pc, is_available,
          max_bytes, pc,
          stream_count, total_bytes_received, stream_bytes_received, clock,
          elapsed, req_pc, pending, nresponses, connections, yielded, yield_conn,
          prev_number, pulled, forwarded, gen_info, handler_pc>>

relay_vars == <<reader_pc, reader_total, idle, generator_done, cancel_requested,
                audio_queue, sentinels_put, idle_end, late_frames, limit_msgs>>
coord_vars == <<tts_vars, is_available, max_bytes, pc, stream_count, total_bytes_received,
                stream_bytes_received, clock, elapsed, req_pc, pending,
                nresponses, connections, yielded, yield_conn, prev_number, pulled,
                forwarded, gen_info>>


(***************************************************************************)
(* Helpers.                                                                *)
(***************************************************************************)
\* the request threads
Threads == 1..MaxThreads

\* the variables of the speech-to-text session
stt_vars == <<ws_open, nframes, ag_pc, handler_pc, relay_vars, is_available, max_bytes, pc,
              stream_count, total_bytes_received, stream_bytes_received, clock,
              elapsed, req_pc, pending, nresponses, connections, yielded, yield_conn,
              prev_number, pulled, forwarded, gen_info>>

\* the clocks stop counting one tick past the largest threshold they are compared to
ClockCap == max_duration_seconds + 1
IdleCap == 2 * HEARTBEAT_INTERVAL + 1

(***************************************************************************)
(* audio_reader: the background task of the relay.                         *)
(***************************************************************************)
\* finally: generator_done = True; await audio_queue.put(None)
ReaderFinally ==
    /\ generator_done' = TRUE
    /\ audio_queue' = Append(audio_queue, Sentinel)
    /\ sentinels_put' = sentinels_put + 1
    /\ late_frames' = late_frames
    /\ reader_pc' = "done"
    /\ cancel_requested' = FALSE

\* variant: the limit test lets one byte too many through
ReaderLimitExceededLate(total) == total > MAX_AUDIO_BYTES_PER_SESSION + 1

\* the byte-limit test of audio_reader
ReaderLimitExceeded(total) == total > MAX_AUDIO_BYTES_PER_SESSION

\* websocket.receive_bytes() returns a frame of `size` bytes
ReaderReceive(size) ==
    /\ reader_pc = "receiving"
    /\ ~cancel_requested
    /\ ws_open
    /\ nframes < MaxFrames
    /\ nframes' = nframes + 1
    /\ reader_total' = reader_total + size
    /\ idle' = 0
    /\ IF ReaderLimitExceeded(reader_total + size)
       THEN /\ limit_msgs' = limit_msgs + 1
            /\ ReaderFinally
            /\ UNCHANGED idle_end
       ELSE /\ audio_queue' = Append(audio_queue, [id |-> nframes + 1, len |-> size])
            /\ late_frames' = late_frames + (IF sentinels_put > 0 THEN 1 ELSE 0)
            /\ UNCHANGED <<sentinels_put, idle_end, limit_msgs, generator_done, reader_pc, cancel_requested>>
    /\ UNCHANGED <<ws_open, ag_pc, handler_pc>>
    /\ UNCHANGED coord_vars

\* variant: the reader ends as soon as twice the heartbeat interval is reached
ReaderIdleTooLongEarly(i) == i >= HEARTBEAT_INTERVAL * 2

\* the idle test made when asyncio.wait_for times out
ReaderIdleTooLong(i) == i > HEARTBEAT_INTERVAL * 2

\* asyncio.TimeoutError: no frame within the receive timeout
ReaderTimeout ==
    /\ reader_pc = "receiving"
    /\ ~cancel_requested
    /\ IF ReaderIdleTooLong(idle)
       THEN ReaderFinally /\ idle_end' = TRUE
       ELSE UNCHANGED <<generator_done, audio_queue, sentinels_put, idle_end, late_frames,
                        reader_pc, cancel_requested>>
    /\ UNCHANGED <<ws_open, nframes, reader_total, idle, limit_msgs, ag_pc, handler_pc>>
    /\ UNCHANGED coord_vars

\* WebSocketDisconnect raised by receive_bytes
ReaderDisconnect ==
    /\ reader_pc = "receiving"
    /\ ~cancel_requested
    /\ ~ws_open
    /\ ReaderFinally
    /\ UNCHANGED idle_end
    /\ UNCHANGED <<ws_open, nframes, reader_total, idle, limit_msgs, ag_pc, handler_pc>>
    /\ UNCHANGED coord_vars

\* any other exception raised by receive_bytes (e.g. a text frame)
ReaderReceiveError ==
    /\ reader_pc = "receiving"
    /\ ~cancel_requested
    /\ ws_open
    /\ ReaderFinally
    /\ UNCHANGED idle_end
    /\ UNCHANGED <<ws_open, nframes, reader_total, idle, limit_msgs, ag_pc, handler_pc>>
    /\ UNCHANGED coord_vars

\* variant: the sentinel is put after the loop instead of in a finally block, so
\* a cancelled reader ends without it
ReaderCancelledNoSentinel ==
    /\ reader_pc = "receiving"
    /\ cancel_requested
    /\ reader_pc' = "done"
    /\ cancel_requested' = FALSE
    /\ UNCHANGED <<generator_done, audio_queue, sentinels_put, idle_end, late_frames>>
    /\ UNCHANGED <<ws_open, nframes, reader_total, idle, limit_msgs, ag_pc, handler_pc>>
    /\ UNCHANGED coord_vars

\* CancelledError delivered to the reader task after reader_task.cancel()
ReaderCancelled ==
    /\ reader_pc = "receiving"
    /\ cancel_requested
    /\ ReaderFinally
    /\ UNCHANGED idle_end
    /\ UNCHANGED <<ws_open, nframes, reader_total, idle, limit_msgs, ag_pc, handler_pc>>
    /\ UNCHANGED coord_vars

\* the client closes the WebSocket
ClientDisconnect ==
    /\ ws_open
    /\ handler_pc # "returned"
    /\ ws_open' = FALSE
    /\ UNCHANGED <<nframes, ag_pc, handler_pc>>
    /\ UNCHANGED relay_vars
    /\ UNCHANGED coord_vars


(***************************************************************************)
(* TranscriptionResult and the dispatch loop of websocket_transcribe.      *)
(***************************************************************************)
None == "None"

\* TranscriptionResult(is_final, transcript, confidence, words, stream_number, error, warning)
TranscriptionResult(is_final, transcript, words, stream_number, error, warning) ==
    [is_final |-> is_final, transcript |-> transcript, words |-> words,
     stream_number |-> stream_number, error |-> error, warning |-> warning]

WARN_RECONNECTED == "Stream reconnected due to time limit"
WARN_SOON == "Streaming will reconnect in N seconds"
WARN_RECONNECTING == "reconnecting"
ERR_UNAVAILABLE == "STT service not available"
ERR_STREAM == "Stream error occurred, attempting to reconnect..."

\* "timeout" in result.error.lower(), for the two error texts the service yields
ErrorMentionsTimeout(error) == FALSE

\* what the body of `async for result in stt.transcribe_stream(...)` does with
\* one result: "continue" (asks for the next), "break", or "raise" (send_json
\* on a closed WebSocket)
DispatchOutcome(ev, open) ==
    IF ev.error # None
    THEN IF ErrorMentionsTimeout(ev.error) THEN "break"
         ELSE IF ~open THEN "raise"
         ELSE IF ev.error = ERR_UNAVAILABLE THEN "break"
         ELSE IF ev.warning # WARN_RECONNECTING THEN "break"
         ELSE "continue"
    ELSE IF ev.warning # None
    THEN IF ev.warning \in {WARN_RECONNECTED, WARN_SOON} /\ ~open THEN "raise"
         ELSE "continue"
    ELSE IF ev.transcript # "" /\ ~open THEN "raise"
    ELSE "continue"

\* index of the first of the yielded results at which the consumer stops, or 0
StopIndex(evs) ==
    LET stops == {i \in 1..Len(evs) : DispatchOutcome(evs[i], ws_open) # "continue"}
    IN IF stops = {} THEN 0 ELSE CHOOSE i \in stops : \A j \in stops : i <= j

\* the results the consumer actually receives from a step that yields evs
Yielded(evs) ==
    IF StopIndex(evs) = 0 THEN evs ELSE SubSeq(evs, 1, StopIndex(evs))

\* the step yields evs (history of what the consumer received)
Yield(evs) ==
    IF evs = <<>>
    THEN UNCHANGED <<yielded, yield_conn, prev_number>>
    ELSE /\ yielded' = Yielded(evs)
         /\ yield_conn' = connections
         /\ prev_number' = IF yielded = <<>> THEN 0
                           ELSE yielded[Len(yielded)].stream_number

\* the consumer left the loop: the handler's finally closes the WebSocket and the
\* generator stays suspended at its yield
ConsumerLeaves ==
    /\ pc' = "abandoned"
    /\ handler_pc' = "returned"
    /\ ws_open' = FALSE

(***************************************************************************)
(* Recognizer results (the environment's inputs).                          *)
(***************************************************************************)
\* a WordInfo with Duration fields <<seconds, nanos>>
WordInfo == [word |-> "hi", start_time |-> <<0, 500000000>>, end_time |-> <<1, 250000000>>]

\* duration.seconds + nanos / 1e9, kept exact as a count of nanoseconds
DurationSeconds(d) == d[1] * 1000000000 + d[2]

parse_word_timestamps(word_info) ==
    [word |-> word_info.word,
     start_time |-> DurationSeconds(word_info.start_time),
     end_time |-> DurationSeconds(word_info.end_time)]

\* StreamingRecognitionResult: alternatives (0 or 1), and of the top alternative
\* the transcript and the words
NoAlternatives == [alternatives |-> 0, is_final |-> FALSE, transcript |-> "", words |-> <<>>]
Interim == [alternatives |-> 1, is_final |-> FALSE, transcript |-> "so", words |-> <<>>]
InterimWithWords ==
    [alternatives |-> 1, is_final |-> FALSE, transcript |-> "so", words |-> <<WordInfo>>]
Final == [alternatives |-> 1, is_final |-> TRUE, transcript |-> "so far", words |-> <<WordInfo>>]
FinalNoWords == [alternatives |-> 1, is_final |-> TRUE, transcript |-> "so far", words |-> <<>>]
FinalEmpty == [alternatives |-> 1, is_final |-> TRUE, transcript |-> "", words |-> <<>>]

ResultKinds == {NoAlternatives, Interim, InterimWithWords, Final, FinalNoWords, FinalEmpty}

\* a StreamingRecognizeResponse carries one result, or a finalized result followed
\* by a second result
Responses ==
    {<<r>> : r \in ResultKinds}
        \cup {<<r1, r2>> : r1 \in {Final, NoAlternatives}, r2 \in {Interim, NoAlternatives}}

\* variant: word timings are taken from every result, final or not
WordsDataAlways(result) ==
    [i \in 1..Len(result.words) |-> parse_word_timestamps(result.words[i])]

\* words_data of one result
WordsData(result) ==
    IF result.is_final
    THEN [i \in 1..Len(result.words) |-> parse_word_timestamps(result.words[i])]
    ELSE <<>>

\* the messages of the exceptions a recognizer connection raises
ErrorMessages ==
    {"Stream cancelled", "Channel closed", "Audio Timeout Error", "Deadline timeout",
     "503 Service Unavailable", "401 Unauthenticated", "500 Internal error"}

\* the recognizer reports itself unavailable, or the caller unauthenticated
Refusal(error_msg) == error_msg \in {"503 Service Unavailable", "401 Unauthenticated"}

\* sub in error_msg.lower()
Mentions(error_msg, sub) ==
    CASE sub = "cancelled" -> error_msg = "Stream cancelled"
      [] sub = "closed" -> error_msg = "Channel closed"
      [] sub = "audio timeout" -> error_msg = "Audio Timeout Error"
      [] sub = "timeout" -> error_msg \in {"Audio Timeout Error", "Deadline timeout"}
      [] OTHER -> FALSE


(***************************************************************************)
(* audio_generator: the lazy frame sequence handed to transcribe_stream.   *)
(***************************************************************************)
\* first __anext__: reader_task = asyncio.create_task(audio_reader())
AudioGeneratorStart ==
    /\ pc = "streaming"
    /\ req_pc = "active"
    /\ ag_pc = "unstarted"
    /\ ag_pc' = "running"
    /\ reader_pc' = "receiving"
    /\ idle' = 0
    /\ UNCHANGED <<ws_open, nframes, reader_total, generator_done, cancel_requested,
                   audio_queue, sentinels_put, idle_end, late_frames, limit_msgs, handler_pc>>
    /\ UNCHANGED coord_vars

\* the finally block of audio_generator, entered while the generator is suspended
\* on audio_queue.get(): cancel the reader unless it is done, then await it
AudioGeneratorFinally ==
    IF generator_done
    THEN ag_pc' = "finished" /\ cancel_requested' = cancel_requested
    ELSE ag_pc' = "closing" /\ cancel_requested' = TRUE

\* `await reader_task` returns
AudioGeneratorFinished ==
    /\ ag_pc = "closing"
    /\ reader_pc = "done"
    /\ ag_pc' = "finished"
    /\ UNCHANGED <<ws_open, nframes, handler_pc>>
    /\ UNCHANGED relay_vars
    /\ UNCHANGED coord_vars

\* the generators are closed once nothing iterates transcribe_stream any more
\* (asynchronous-generator finalization)
Finalize ==
    /\ pc \in {"done", "abandoned", "raised"}
    /\ ag_pc = "running"
    /\ AudioGeneratorFinally
    /\ UNCHANGED <<ws_open, nframes, handler_pc, reader_pc, reader_total, idle,
                   generator_done, audio_queue, sentinels_put, idle_end, late_frames, limit_msgs>>
    /\ UNCHANGED coord_vars

(***************************************************************************)
(* STTService.transcribe_stream.                                           *)
(***************************************************************************)
\* websocket_transcribe up to the dispatch loop, and transcribe_stream up to its
\* while loop
Start ==
    /\ handler_pc = "init"
    /\ IF ~is_available
       THEN \* stt.is_operational() is false: report and close
            /\ handler_pc' = "returned"
            /\ ws_open' = FALSE
            /\ UNCHANGED <<pc, stream_count, total_bytes_received>>
       ELSE /\ handler_pc' = "dispatching"
            /\ pc' = "loop"
            /\ stream_count' = 0
            /\ total_bytes_received' = 0
            /\ UNCHANGED ws_open
    /\ UNCHANGED <<nframes, ag_pc, tts_vars, is_available, max_bytes, stream_bytes_received,
                   clock, elapsed, req_pc, pending, nresponses, connections, yielded, yield_conn, prev_number, pulled,
                   forwarded, gen_info>>
    /\ UNCHANGED relay_vars

\* variant: the generation counter is not advanced
NextStreamCountStuck(n) == n

\* stream_count += 1
NextStreamCount(n) == n + 1

\* top of `while True`: a new generation, up to streaming_recognize
OpenStream ==
    /\ pc = "loop"
    /\ stream_count < MaxStreams
    /\ LET evs == IF NextStreamCount(stream_count) > 1
                  THEN <<TranscriptionResult(FALSE, "", <<>>, NextStreamCount(stream_count),
                                             None, WARN_RECONNECTED)>>
                  ELSE <<>>
       IN /\ Yield(evs)
          /\ stream_count' = NextStreamCount(stream_count)
          /\ clock' = 0
          /\ IF StopIndex(evs) # 0
             THEN /\ ConsumerLeaves
                  /\ UNCHANGED <<stream_bytes_received, req_pc, pending, gen_info,
                                 connections>>
             ELSE /\ pc' = "streaming"
                  /\ connections' = connections + 1
                  /\ stream_bytes_received' = 0
                  /\ req_pc' = "active"
                  /\ pending' = <<>>
                  /\ gen_info' = [gen_info EXCEPT !.limit_hit = FALSE, !.warned = FALSE,
                                                  !.gen_results = 0,
                                                  !.cause = "none", !.last_end = "none",
                                                  !.src = IF evs # <<>> THEN NoAlternatives ELSE @,
                                                  !.warnings = @ \/ evs # <<>>]
                  /\ UNCHANGED <<handler_pc, ws_open>>
    /\ UNCHANGED <<nframes, ag_pc, tts_vars, is_available, max_bytes, total_bytes_received,
                   elapsed, nresponses, pulled, forwarded>>
    /\ UNCHANGED relay_vars

\* request_generator: "elapsed >= max_duration_seconds"
TimeLimitReached(t) == t >= max_duration_seconds

\* variant: the budget test lets one byte too many through
ByteLimitOffByOne(total) == total > max_bytes + 1

\* request_generator: "total_bytes_received > max_bytes"
ByteLimitExceeded(total) == total > max_bytes

\* request_generator pulls one frame from audio_generator
PullFrame ==
    /\ pc = "streaming"
    /\ req_pc = "active"
    /\ ag_pc = "running"
    /\ audio_queue # <<>>
    /\ Head(audio_queue) # Sentinel
    /\ LET chunk == Head(audio_queue)
       IN /\ audio_queue' = Tail(audio_queue)
          /\ pulled' = Append(pulled, chunk.id)
          /\ stream_bytes_received' = stream_bytes_received + chunk.len
          /\ total_bytes_received' = total_bytes_received + chunk.len
          /\ IF TimeLimitReached(clock)
             THEN /\ req_pc' = "ended"
                  /\ gen_info' = [gen_info EXCEPT !.limit_hit = TRUE]
                  /\ UNCHANGED forwarded
             ELSE IF ByteLimitExceeded(total_bytes_received + chunk.len)
             THEN /\ req_pc' = "ended"
                  /\ gen_info' = [gen_info EXCEPT !.budget_hit = TRUE]
                  /\ UNCHANGED forwarded
             ELSE /\ forwarded' = Append(forwarded, chunk)
                  /\ UNCHANGED <<req_pc, gen_info>>
    /\ UNCHANGED <<ws_open, nframes, handler_pc, reader_pc, reader_total, idle,
                   generator_done, cancel_requested, sentinels_put, idle_end, late_frames, limit_msgs, ag_pc,
                   tts_vars, is_available, max_bytes, pc, stream_count, clock, elapsed,
                   pending, nresponses, connections, yielded, yield_conn, prev_number>>

\* audio_generator gets the sentinel: it ends, and so does request_generator
PullSentinel ==
    /\ pc = "streaming"
    /\ req_pc = "active"
    /\ ag_pc = "running"
    /\ audio_queue # <<>>
    /\ Head(audio_queue) = Sentinel
    /\ audio_queue' = Tail(audio_queue)
    /\ AudioGeneratorFinally
    /\ req_pc' = "ended"
    /\ UNCHANGED <<ws_open, nframes, handler_pc, reader_pc, reader_total, idle,
                   generator_done, sentinels_put, idle_end, late_frames, limit_msgs,
                   tts_vars, is_available, max_bytes, pc, stream_count, total_bytes_received,
                   stream_bytes_received, clock, elapsed, pending, nresponses,
                   connections, yielded, yield_conn, prev_number, pulled, forwarded, gen_info>>

\* request_generator iterates an audio_generator that has already ended
ReqExhausted ==
    /\ pc = "streaming"
    /\ req_pc = "active"
    /\ ag_pc \in {"closing", "finished"}
    /\ req_pc' = "ended"
    /\ UNCHANGED <<ws_open, nframes, handler_pc, ag_pc, tts_vars, is_available, max_bytes, pc,
                   stream_count, total_bytes_received, stream_bytes_received, clock,
                   elapsed, pending, nresponses, connections, yielded, yield_conn, prev_number, pulled, forwarded, gen_info>>
    /\ UNCHANGED relay_vars


\* variant: the warning window opens ten seconds earlier
ApproachingLimitEarly(t) == t >= max_duration_seconds - WARN_LEAD - 1

\* "elapsed >= max_duration_seconds - 10"
ApproachingLimit(t) == t >= max_duration_seconds - WARN_LEAD

\* `if not result.alternatives: continue`: the results the loop skips without
\* yielding
RECURSIVE SkipNoAlternatives(_)
SkipNoAlternatives(results) ==
    IF results # <<>> /\ Head(results).alternatives = 0
    THEN SkipNoAlternatives(Tail(results))
    ELSE results

\* the results of the response left to iterate after the head was yielded at
\* elapsed time t: none after the `break` that follows the warning
RestOfResponse(results, t) ==
    IF ApproachingLimit(t) THEN <<>> ELSE Tail(results)

\* the transcripts of the results that have an alternative and a non-empty top
\* transcript, in order
Transcripts(results) ==
    LET said == SelectSeq(results, LAMBDA r : r.alternatives > 0 /\ r.transcript # "")
    IN [i \in 1..Len(said) |-> said[i].transcript]

\* `for result in response.results`, from the current position up to and including
\* the next yielded result and the time check that follows it
ProcessResults(results, info) ==
    LET todo == SkipNoAlternatives(results)
        result == Head(todo)
        ev == TranscriptionResult(result.is_final, result.transcript,
                                  WordsData(result), stream_count, None, None)
        soon == TranscriptionResult(FALSE, "", <<>>, stream_count, None, WARN_SOON)
        evs == IF ApproachingLimit(clock) THEN <<ev, soon>> ELSE <<ev>>
    IN IF todo = <<>>
       THEN /\ pending' = <<>>
            /\ gen_info' = info
            /\ UNCHANGED <<ws_open, handler_pc, pc, elapsed, yielded, yield_conn,
                           prev_number>>
       ELSE /\ Yield(evs)
            /\ IF StopIndex(evs) # 0
               THEN /\ ConsumerLeaves
                    /\ pending' = todo
                    /\ gen_info' = info
                    /\ UNCHANGED elapsed
               ELSE /\ elapsed' = clock
                    /\ pending' = RestOfResponse(todo, clock)
                    /\ gen_info' = [info EXCEPT
                           !.sent = IF result.transcript # ""
                                    THEN Append(@, result.transcript) ELSE @,
                           !.warned = @ \/ ApproachingLimit(clock),
                           !.warnings = @ \/ ApproachingLimit(clock),
                           !.gen_results = 1,
                           !.src = result]
                    /\ UNCHANGED <<ws_open, handler_pc, pc>>

\* the recognizer delivers a response; the loop runs up to its first yield
RecvResponse(response) ==
    /\ pc = "streaming"
    /\ pending = <<>>
    /\ nresponses < MaxResponses
    /\ nresponses' = nresponses + 1
    /\ ProcessResults(response,
                      [gen_info EXCEPT !.recognized = @ \o Transcripts(response)])
    /\ UNCHANGED <<nframes, ag_pc, tts_vars, is_available, max_bytes, stream_count,
                   total_bytes_received, stream_bytes_received, clock, req_pc,
                   connections, pulled, forwarded>>
    /\ UNCHANGED relay_vars

\* the consumer asks for the next item: the loop goes on with the response
ContinueResponse ==
    /\ pc = "streaming"
    /\ pending # <<>>
    /\ ProcessResults(pending, gen_info)
    /\ UNCHANGED <<nframes, ag_pc, tts_vars, is_available, max_bytes, stream_count,
                   total_bytes_received, stream_bytes_received, clock, req_pc,
                   nresponses, connections, pulled, forwarded>>
    /\ UNCHANGED relay_vars

\* the connection is over: its request iterator is dropped.  When it is suspended
\* in audio_generator, the recognizer client either cancels it there (close), which
\* runs audio_generator's finally, or leaves it
ConnectionEnds(close) ==
    /\ close => req_pc = "active" /\ ag_pc = "running"
    /\ req_pc' = "none"
    /\ IF close
       THEN AudioGeneratorFinally
       ELSE UNCHANGED <<ag_pc, cancel_requested>>

\* bookkeeping of how the generation ended (history only)
EndOfGeneration(cause, last_end) ==
    [gen_info EXCEPT
        !.cause = cause,
        !.last_end = last_end,
        !.errors = @ \/ cause = "fault",
        !.src = IF cause = "fault" THEN NoAlternatives ELSE @,
        !.fault_run = IF cause = "fault"
                      THEN (IF gen_info.gen_results = 0 THEN @ + 1 ELSE 1)
                      ELSE 0]

\* after the response loop, and the StopAsyncIteration handler: reconnect when the
\* time limit is reached, else finish
AfterStream(t) == IF t >= max_duration_seconds THEN "loop" ELSE "done"

\* the response stream ends (`async for response in stream` is exhausted, or
\* StopAsyncIteration is raised)
StreamEnd(close) ==
    /\ pc = "streaming"
    /\ pending = <<>>
    /\ elapsed' = clock
    /\ pc' = AfterStream(clock)
    /\ gen_info' = EndOfGeneration(IF AfterStream(clock) = "loop" THEN "time" ELSE "end",
                                   "eos")
    /\ ConnectionEnds(close)
    /\ UNCHANGED <<ws_open, nframes, handler_pc, reader_pc, reader_total, idle,
                   generator_done, audio_queue, sentinels_put, idle_end, late_frames, limit_msgs,
                   tts_vars, is_available, max_bytes, stream_count, total_bytes_received,
                   stream_bytes_received, clock, pending, nresponses, connections, yielded, yield_conn, prev_number,
                   pulled, forwarded>>

\* the operands of is_normal_completion that do not read `elapsed`
NormalWithoutElapsed(error_msg, stream_bytes) ==
    \/ Mentions(error_msg, "cancelled")
    \/ Mentions(error_msg, "closed")
    \/ (Mentions(error_msg, "audio timeout") /\ stream_bytes > 0)

\* the last operand is evaluated: it reads the local `elapsed`
ReadsElapsed(error_msg, stream_bytes) ==
    /\ ~NormalWithoutElapsed(error_msg, stream_bytes)
    /\ Mentions(error_msg, "timeout")
    /\ stream_bytes > 0

is_normal_completion(error_msg, stream_bytes, last_elapsed) ==
    \/ NormalWithoutElapsed(error_msg, stream_bytes)
    \/ (ReadsElapsed(error_msg, stream_bytes) /\ last_elapsed < TIMEOUT_NORMAL_LIMIT)

\* where `except Exception as stream_error` goes: "done" (break), "loop"
\* (continue) or "retry" (error result, sleep, continue)
FaultOutcome(error_msg, stream_bytes, last_elapsed, t) ==
    IF is_normal_completion(error_msg, stream_bytes, last_elapsed)
    THEN IF t < max_duration_seconds /\ stream_bytes > 0 THEN "done"
         ELSE IF t >= max_duration_seconds THEN "loop"
         ELSE "done"
    ELSE IF t < max_duration_seconds THEN "retry"
    ELSE "loop"

\* the recognizer connection raises an exception
StreamFault(error_msg, close) ==
    /\ pc = "streaming"
    /\ pending = <<>>
    /\ IF ReadsElapsed(error_msg, stream_bytes_received) /\ elapsed = -1
       THEN \* UnboundLocalError leaves transcribe_stream; the handler reports it
            /\ pc' = "raised"
            /\ handler_pc' = "returned"
            /\ ws_open' = FALSE
            /\ UNCHANGED <<elapsed, yielded, yield_conn, prev_number, gen_info>>
       ELSE LET outcome == FaultOutcome(error_msg, stream_bytes_received, elapsed, clock)
                evs == IF outcome = "retry"
                       THEN <<TranscriptionResult(FALSE, "", <<>>, stream_count,
                                                  ERR_STREAM, WARN_RECONNECTING)>>
                       ELSE <<>>
            IN /\ elapsed' = clock
               /\ Yield(evs)
               /\ IF StopIndex(evs) # 0
                  THEN /\ ConsumerLeaves
                       /\ UNCHANGED gen_info
                  ELSE /\ pc' = IF outcome = "done" THEN "done" ELSE "loop"
                       /\ gen_info' = EndOfGeneration(
                              CASE outcome = "retry" -> "fault"
                                [] outcome = "loop" -> "time"
                                [] OTHER -> "end",
                              IF Refusal(error_msg) THEN "refused" ELSE "exception")
                       /\ UNCHANGED <<handler_pc, ws_open>>
    /\ ConnectionEnds(close)
    /\ UNCHANGED <<nframes, reader_pc, reader_total, idle, generator_done, audio_queue,
                   sentinels_put, idle_end, late_frames, limit_msgs, tts_vars, is_available, max_bytes, stream_count,
                   total_bytes_received, stream_bytes_received, clock, pending,
                   nresponses, connections, pulled, forwarded>>

\* transcribe_stream is exhausted: the handler's finally closes the WebSocket
HandlerReturn ==
    /\ pc = "done"
    /\ handler_pc = "dispatching"
    /\ handler_pc' = "returned"
    /\ ws_open' = FALSE
    /\ UNCHANGED <<nframes, ag_pc>>
    /\ UNCHANGED relay_vars
    /\ UNCHANGED coord_vars

\* ten seconds pass on the coordinator's clock
Tick ==
    /\ pc = "streaming"
    /\ clock < ClockCap
    /\ clock' = clock + 1
    /\ UNCHANGED <<ws_open, nframes, ag_pc, handler_pc, tts_vars, is_available, max_bytes, pc,
                   stream_count, total_bytes_received, stream_bytes_received,
                   elapsed, req_pc, pending, nresponses, connections, yielded,
                   yield_conn, prev_number, pulled, forwarded, gen_info>>
    /\ UNCHANGED relay_vars

\* ten seconds pass on the reader's clock without a frame
IdleTick ==
    /\ reader_pc = "receiving"
    /\ idle < IdleCap
    /\ idle' = idle + 1
    /\ UNCHANGED <<ws_open, nframes, ag_pc, handler_pc, reader_pc, reader_total,
                   generator_done, cancel_requested, audio_queue, sentinels_put, idle_end,
                   late_frames, limit_msgs>>
    /\ UNCHANGED coord_vars

(***************************************************************************)
(* TTSService (app/services/tts_service.py).  A text is a sequence of      *)
(* one-character strings; mark times are in milliseconds.                  *)
(***************************************************************************)
\* the characters of the input texts: a letter, a sentence end, a blank
Alphabet == {"a", ".", " "}

\* the input texts of generate_speech
Texts == UNION {[1..n -> Alphabet] : n \in 0..(MAX_TEXT_LENGTH + MaxOver)}

\* \s of the regular expressions
IsSpace(c) == c = " "

\* [.!?] of the regular expressions
IsSentenceEnd(c) == c \in {".", "!", "?"}

\* the first index from i on whose character is not in the run (Len + 1 when the
\* run reaches the end of the text)
RECURSIVE SpaceRunEnd(_, _)
SpaceRunEnd(text, i) ==
    IF i <= Len(text) /\ IsSpace(text[i]) THEN SpaceRunEnd(text, i + 1) ELSE i

RECURSIVE SentenceEndRunEnd(_, _)
SentenceEndRunEnd(text, i) ==
    IF i <= Len(text) /\ IsSentenceEnd(text[i]) THEN SentenceEndRunEnd(text, i + 1) ELSE i

\* the end (exclusive) of the match of [.!?]+\s+ that starts at i, or 0
BoundaryMatchEnd(text, i) ==
    LET j == SentenceEndRunEnd(text, i)
    IN IF j > i /\ j <= Len(text) /\ IsSpace(text[j]) THEN SpaceRunEnd(text, j) ELSE 0

\* the start of the leftmost match of [.!?]+\s+, or 0
FirstBoundary(text) ==
    LET starts == {i \in 1..Len(text) : BoundaryMatchEnd(text, i) # 0}
    IN IF starts = {} THEN 0 ELSE CHOOSE i \in starts : \A j \in starts : i <= j

\* re.split(r'([.!?]+\s+)', text): sentences at the odd positions, the separators
\* between them at the even ones
RECURSIVE SplitSentences(_)
SplitSentences(text) ==
    LET m == FirstBoundary(text)
        k == BoundaryMatchEnd(text, m)
    IN IF m = 0
       THEN <<text>>
       ELSE <<SubSeq(text, 1, m - 1), SubSeq(text, m, k - 1)>>
                \o SplitSentences(SubSeq(text, k, Len(text)))

\* str.strip()
RECURSIVE strip(_)
strip(text) ==
    IF text = <<>> THEN text
    ELSE IF IsSpace(Head(text)) THEN strip(Tail(text))
    ELSE IF IsSpace(text[Len(text)]) THEN strip(SubSeq(text, 1, Len(text) - 1))
    ELSE text

\* re.sub(r'\s+', ' ', text)
RECURSIVE CollapseSpaces(_)
CollapseSpaces(text) ==
    IF text = <<>> THEN text
    ELSE IF IsSpace(Head(text))
    THEN <<" ">> \o CollapseSpaces(SubSeq(text, SpaceRunEnd(text, 1), Len(text)))
    ELSE <<Head(text)>> \o CollapseSpaces(Tail(text))

\* clean_markdown_formatting, for texts without markdown syntax
clean_markdown_formatting(text) == strip(CollapseSpaces(text))

\* `for j in range(0, len(sentence), MAX_TEXT_LENGTH)`: the hard split
HardSplit(sentence) ==
    LET n == (Len(sentence) + MAX_TEXT_LENGTH - 1) \div MAX_TEXT_LENGTH
    IN [j \in 1..n |->
           SubSeq(sentence, (j - 1) * MAX_TEXT_LENGTH + 1,
                  IF j * MAX_TEXT_LENGTH < Len(sentence)
                  THEN j * MAX_TEXT_LENGTH ELSE Len(sentence))]

\* `if current_chunk: chunks.append(current_chunk.strip())`
Flush(chunks, current_chunk) ==
    IF current_chunk # <<>> THEN Append(chunks, strip(current_chunk)) ELSE chunks

\* the loop of _chunk_text over the sentences, from position i (1-based)
RECURSIVE ChunkLoop(_, _, _, _)
ChunkLoop(sentences, i, chunks, current_chunk) ==
    IF i > Len(sentences)
    THEN Flush(chunks, current_chunk)
    ELSE LET sentence == sentences[i]
             punct == IF i + 1 <= Len(sentences) THEN sentences[i + 1] ELSE <<>>
         IN IF Len(current_chunk) + Len(sentence) + Len(punct) > MAX_TEXT_LENGTH
            THEN IF Len(sentence) > MAX_TEXT_LENGTH
                 THEN ChunkLoop(sentences, i + 2,
                                Flush(chunks, current_chunk) \o HardSplit(sentence), <<>>)
                 ELSE ChunkLoop(sentences, i + 2,
                                Flush(chunks, current_chunk), sentence \o punct)
            ELSE ChunkLoop(sentences, i + 2, chunks,
                           current_chunk \o sentence \o punct)

\* `if len(text) <= MAX_TEXT_LENGTH`
NeedsNoChunking(text) == Len(text) <= MAX_TEXT_LENGTH

_chunk_text(text) ==
    IF NeedsNoChunking(text)
    THEN <<text>>
    ELSE ChunkLoop(SplitSentences(text), 1, <<>>, <<>>)

\* ---- languages and voices
\* a BCP-47 code is a pair <<language, region>>; "auto" asks for detection
AUTO == <<"auto">>
EN_US == <<"en", "US">>
EN_GB == <<"en", "GB">>
FR_FR == <<"fr", "FR">>
DE_DE == <<"de", "DE">>
FI_FI == <<"fi", "FI">>
FIL_PH == <<"fil", "PH">>

\* language_code.split('-')[0]
BaseLang(language_code) == language_code[1]

\* str.startswith, over the language parts of the codes of the model
IsPrefix(prefix, string) == prefix = string \/ (prefix = "fi" /\ string = "fil")

\* lang.startswith(base_lang); base_lang has no '-', so only the language part of
\* lang is compared
StartsWith(lang, base_lang) == IsPrefix(base_lang, lang[1])

\* voice_map as _load_all_voices builds it, in insertion order: nothing (listing
\* the voices failed), British English only, or French and US English
VoiceMaps ==
    {<<>>,
     <<[lang |-> EN_GB, voices |-> <<"en-GB-Wavenet-A", "en-GB-Standard-A">>]>>,
     <<[lang |-> FR_FR, voices |-> <<"fr-FR-Wavenet-A">>],
       [lang |-> EN_US, voices |-> <<"en-US-Wavenet-A", "en-US-Standard-A">>]>>}

\* self.voice_map.get(language_code, [])
VoicesOf(voice_map, language_code) ==
    LET hits == {i \in 1..Len(voice_map) : voice_map[i].lang = language_code}
    IN IF hits = {} THEN <<>> ELSE voice_map[CHOOSE i \in hits : TRUE].voices

\* the voices of the first language of the map that starts with base_lang
VoicesOfBase(voice_map, base_lang) ==
    LET hits == {i \in 1..Len(voice_map) : StartsWith(voice_map[i].lang, base_lang)}
    IN IF hits = {} THEN <<>>
       ELSE voice_map[CHOOSE i \in hits : \A j \in hits : i <= j].voices

\* variant: a language without voices is served by the first voice of the map
SelectVoiceOrAny(voice_map, language_code) ==
    LET exact == VoicesOf(voice_map, language_code)
        voices == IF exact # <<>> THEN exact
                  ELSE VoicesOfBase(voice_map, BaseLang(language_code))
    IN IF voices # <<>> THEN voices[1]
       ELSE IF voice_map # <<>> THEN voice_map[1].voices[1] ELSE None

_select_voice_for_language(voice_map, language_code) ==
    LET exact == VoicesOf(voice_map, language_code)
        voices == IF exact # <<>> THEN exact
                  ELSE VoicesOfBase(voice_map, BaseLang(language_code))
    IN IF voices = <<>> THEN None ELSE voices[1]

\* what translate_client.detect_language answers: a language, or an exception
Detections == {"en", "fr", "de", "raise"}

\* lang_mappings.get(detected_lang.lower(), detected_lang)
LangMapping(detected_lang) ==
    CASE detected_lang = "en" -> EN_US
      [] detected_lang = "fr" -> FR_FR
      [] detected_lang = "de" -> DE_DE
      [] OTHER -> <<detected_lang>>

\* variant: a short text is sent to detection like any other
TooShortNever(clean_text) == FALSE

\* `len(clean_text) < 3`
TooShort(clean_text) == Len(clean_text) < DETECT_MIN_LENGTH

\* detect_language never calls the detection service for this text
NotDetectable(service, text) ==
    \/ ~service.translate_client
    \/ strip(text) = <<>>
    \/ TooShort(clean_markdown_formatting(text))

detect_language(service, text, detection) ==
    IF NotDetectable(service, text) \/ detection = "raise"
    THEN EN_US
    ELSE LET language_code == LangMapping(detection)
         IN IF \/ VoicesOf(service.voice_map, language_code) # <<>>
               \/ \E i \in 1..Len(service.voice_map) :
                      StartsWith(service.voice_map[i].lang, detection)
            THEN language_code
            ELSE EN_US

\* ---- results
\* TTSResult(audio_content, speech_marks, timepoints_available, error, was_chunked)
TTSResult(audio_content, speech_marks, timepoints_available, error, was_chunked) ==
    [audio_content |-> audio_content, speech_marks |-> speech_marks,
     timepoints_available |-> timepoints_available, error |-> error,
     was_chunked |-> was_chunked]

ERR_TTS_UNAVAILABLE == "TTS service not available"
ERR_NO_VOICE == "No suitable voice found for language"
ERR_GENERATING == "Error generating TTS audio"
ERR_NO_CHUNKS == "No chunks to merge"

\* base64.b64encode(...).decode("utf-8")
b64encode(audio_bytes) == IF audio_bytes = <<>> THEN <<>> ELSE <<"base64">> \o audio_bytes

\* what client.synthesize_speech does: it raises, or it returns audio and the
\* timepoints of the marks (time_seconds in ms), possibly none
ProviderResponses ==
    {[raises |-> TRUE, timepoints |-> <<>>],
     [raises |-> FALSE, timepoints |-> <<>>],
     [raises |-> FALSE, timepoints |-> <<[time_seconds |-> 0, mark_name |-> "viseme_0"],
                                         [time_seconds |-> 1200, mark_name |-> "viseme_1"]>>]}

\* `if response.timepoints: timepoints_available = True`
TimepointsAvailable(response) == response.timepoints # <<>>

\* _generate_single_chunk, given the provider's answer to call number n
_generate_single_chunk(response, n) ==
    IF response.raises
    THEN TTSResult(<<>>, <<>>, FALSE, ERR_GENERATING, FALSE)
    ELSE TTSResult(b64encode(<<"mp3", n>>),
                   [i \in 1..Len(response.timepoints) |->
                       [timeSeconds |-> response.timepoints[i].time_seconds,
                        value |-> response.timepoints[i].mark_name]],
                   TimepointsAvailable(response), None, FALSE)

\* variant: the chunks are merged without the gap
TimeOffsetNoGap(merged_marks) == merged_marks[Len(merged_marks)].timeSeconds - 1

\* `time_offset = merged_marks[-1]["timeSeconds"] + 0.5`
TimeOffset(merged_marks) == merged_marks[Len(merged_marks)].timeSeconds + INTER_CHUNK_GAP

\* the loop of _merge_chunked_results over the chunk results, from position k
RECURSIVE MergeMarks(_, _, _, _)
MergeMarks(chunk_results, k, merged_marks, time_offset) ==
    IF k > Len(chunk_results)
    THEN merged_marks
    ELSE LET marks == chunk_results[k].speech_marks
             merged == merged_marks \o
                           [i \in 1..Len(marks) |->
                               [timeSeconds |-> marks[i].timeSeconds + time_offset,
                                value |-> marks[i].value]]
         IN MergeMarks(chunk_results, k + 1, merged,
                       IF marks # <<>> THEN TimeOffset(merged) ELSE time_offset)

\* "; ".join(errors) if errors else None
RECURSIVE JoinErrors(_)
JoinErrors(errors) ==
    IF errors = <<>> THEN None
    ELSE IF Len(errors) = 1 THEN errors[1]
    ELSE errors[1] \o "; " \o JoinErrors(Tail(errors))

\* [r.error for r in chunk_results if r.error]
ErrorsOf(chunk_results) ==
    LET failed == SelectSeq(chunk_results, LAMBDA r : r.error # None)
    IN [i \in 1..Len(failed) |-> failed[i].error]

_merge_chunked_results(chunk_results) ==
    IF chunk_results = <<>>
    THEN TTSResult(<<>>, <<>>, FALSE, ERR_NO_CHUNKS, TRUE)
    ELSE TTSResult(chunk_results[1].audio_content,
                   MergeMarks(chunk_results, 1, <<>>, 0),
                   \A k \in 1..Len(chunk_results) : chunk_results[k].timepoints_available,
                   JoinErrors(ErrorsOf(chunk_results)),
                   TRUE)

\* ---- the service
NoService == [is_available |-> FALSE, voice_map |-> <<>>, translate_client |-> FALSE]
NoRequest == [text |-> <<>>, language_code |-> EN_US, voice_name |-> None]
NoCall == [language_code |-> EN_US, voice_name |-> None, chunks |-> <<>>,
           chunk_results |-> <<>>, sent |-> <<>>]
NoResult == TTSResult(<<>>, <<>>, FALSE, None, FALSE)

\* the language_code and voice_name arguments the callers pass
LanguageCodes == {EN_US, DE_DE, AUTO}
VoiceNames == {None, "en-US-Wavenet-F"}

\* TTSService.__init__: the client is created or not, the voices are listed or
\* not, the translate client is created or not
TTSServiceInit(available, voice_map, translate_client) ==
    /\ tts_pc = "unconstructed"
    /\ ~available => voice_map = <<>>
    /\ tts_pc' = "idle"
    /\ tts_service' = [is_available |-> available, voice_map |-> voice_map,
                       translate_client |-> translate_client]
    /\ UNCHANGED <<tts_request, tts_call, tts_result>>
    /\ UNCHANGED <<stt_vars, tts_singleton>>

\* generate_speech up to the first provider call
generate_speech(text, language_code, voice_name, detection) ==
    /\ tts_pc = "idle"
    /\ (language_code # AUTO \/ NotDetectable(tts_service, text)) => detection = "raise"
    /\ tts_request' = [text |-> text, language_code |-> language_code,
                       voice_name |-> voice_name]
    /\ LET lang == IF language_code = AUTO
                   THEN detect_language(tts_service, text, detection)
                   ELSE language_code
           voice == IF voice_name # None THEN voice_name
                    ELSE _select_voice_for_language(tts_service.voice_map, lang)
       IN IF ~tts_service.is_available
          THEN /\ tts_result' = TTSResult(<<>>, <<>>, FALSE, ERR_TTS_UNAVAILABLE, FALSE)
               /\ tts_pc' = "returned"
               /\ UNCHANGED tts_call
          ELSE IF voice = None
          THEN /\ tts_result' = TTSResult(<<>>, <<>>, FALSE, ERR_NO_VOICE, FALSE)
               /\ tts_pc' = "returned"
               /\ tts_call' = [tts_call EXCEPT !.language_code = lang]
          ELSE /\ tts_call' = [language_code |-> lang, voice_name |-> voice,
                               chunks |-> _chunk_text(text), chunk_results |-> <<>>,
                               sent |-> <<>>]
               /\ tts_pc' = "synthesizing"
               /\ UNCHANGED tts_result
    /\ UNCHANGED tts_service
    /\ UNCHANGED <<stt_vars, tts_singleton>>

\* the next call of _generate_single_chunk, and after the last one the return
synthesize_speech(response) ==
    /\ tts_pc = "synthesizing"
    /\ LET n == Len(tts_call.chunk_results) + 1
           results == Append(tts_call.chunk_results, _generate_single_chunk(response, n))
           chunked == Len(tts_call.chunks) > 1
       IN /\ tts_call' = [tts_call EXCEPT
                 !.chunk_results = results,
                 !.sent = Append(@, IF chunked THEN tts_call.chunks[n]
                                    ELSE tts_request.text)]
          /\ IF chunked /\ n < Len(tts_call.chunks)
             THEN UNCHANGED <<tts_pc, tts_result>>
             ELSE /\ tts_pc' = "returned"
                  /\ tts_result' = IF chunked THEN _merge_chunked_results(results)
                                   ELSE results[1]
    /\ UNCHANGED <<tts_service, tts_request>>
    /\ UNCHANGED <<stt_vars, tts_singleton>>

(***************************************************************************)
(* The system.                                                             *)
(***************************************************************************)
\* the speech-to-text session before websocket_transcribe runs
SessionInit ==
    /\ ws_open = TRUE
    /\ nframes = 0
    /\ reader_pc = "unstarted"
    /\ reader_total = 0
    /\ idle = 0
    /\ generator_done = FALSE
    /\ cancel_requested = FALSE
    /\ audio_queue = <<>>
    /\ sentinels_put = 0
    /\ idle_end = FALSE
    /\ late_frames = 0
    /\ limit_msgs = 0
    /\ ag_pc = "unstarted"
    /\ is_available \in BOOLEAN
    /\ max_bytes \in MaxBytesChoices
    /\ pc = "start"
    /\ stream_count = 0
    /\ total_bytes_received = 0
    /\ stream_bytes_received = 0
    /\ clock = 0
    /\ elapsed = -1
    /\ req_pc = "none"
    /\ pending = <<>>
    /\ nresponses = 0
    /\ connections = 0
    /\ yielded = <<>>
    /\ yield_conn = 0
    /\ prev_number = 0
    /\ pulled = <<>>
    /\ forwarded = <<>>
    /\ gen_info = [limit_hit |-> FALSE, warned |-> FALSE, gen_results |-> 0,
                   cause |-> "none", last_end |-> "none",
                   budget_hit |-> FALSE, fault_run |-> 0,
                   warnings |-> FALSE, errors |-> FALSE, src |-> NoAlternatives,
                   recognized |-> <<>>, sent |-> <<>>]
    /\ handler_pc = "init"

\* no call of get_tts_service yet
NoInstance ==
    [instance |-> 0, constructed |-> 0,
     threads |-> [t \in Threads |-> [pc |-> "idle", local |-> 0, got |-> 0]]]

Init ==
    /\ SessionInit
    /\ tts_pc = "unconstructed"
    /\ tts_service = NoService
    /\ tts_request = NoRequest
    /\ tts_call = NoCall
    /\ tts_result = NoResult
    /\ tts_singleton = NoInstance

\* the recognizer, the request iterator and transcribe_stream
CoordinatorStep ==
    \/ Start
    \/ OpenStream
    \/ AudioGeneratorStart
    \/ PullFrame
    \/ PullSentinel
    \/ ReqExhausted
    \/ \E response \in Responses : RecvResponse(response)
    \/ ContinueResponse
    \/ \E close \in BOOLEAN : StreamEnd(close)
    \/ \E error_msg \in ErrorMessages, close \in BOOLEAN : StreamFault(error_msg, close)
    \/ HandlerReturn
    \/ Finalize
    \/ AudioGeneratorFinished
    \/ Tick

\* Spec: transcribe_stream under every recognizer behaviour, fed by a relay whose
\* client keeps sending frames of any size until the relay ends
Next ==
    \/ CoordinatorStep
    \/ \E size \in FrameSizes : ReaderReceive(size)
    \/ ReaderReceiveError
    \/ ReaderCancelled

Spec == Init /\ [][Next]_vars

\* RelaySpec: the relay under every client behaviour, drained by a session of one
\* recognizer connection that ends at any moment
RelayNext ==
    \/ Start
    \/ OpenStream
    \/ AudioGeneratorStart
    \/ PullFrame
    \/ PullSentinel
    \/ \E close \in BOOLEAN : StreamEnd(close)
    \/ HandlerReturn
    \/ Finalize
    \/ AudioGeneratorFinished
    \/ \E size \in FrameSizes : ReaderReceive(size)
    \/ ReaderTimeout
    \/ ReaderDisconnect
    \/ ReaderReceiveError
    \/ ReaderCancelled
    \/ ClientDisconnect
    \/ IdleTick

RelaySpec == Init /\ [][RelayNext]_vars

\* TtsSpec: one TTSService, constructed in any way, serving one generate_speech
\* call with any arguments, under every provider behaviour
TtsNext ==
    \/ \E available \in BOOLEAN, voice_map \in VoiceMaps, translate_client \in BOOLEAN :
           TTSServiceInit(available, voice_map, translate_client)
    \/ \E text \in Texts, language_code \in LanguageCodes, voice_name \in VoiceNames,
          detection \in Detections :
           generate_speech(text, language_code, voice_name, detection)
    \/ \E response \in ProviderResponses : synthesize_speech(response)

\* no speech-to-text session is running beside it
TtsInit == Init /\ is_available /\ max_bytes = MAX_AUDIO_BYTES_PER_SESSION

TtsSpec == TtsInit /\ [][TtsNext]_vars


(***************************************************************************)
(* _chunk_text, _select_voice_for_language and get_tts_service on their    *)
(* own.                                                                    *)
(***************************************************************************)
\* the texts given to _chunk_text
ChunkTexts == UNION {[1..n -> Alphabet] : n \in 0..(MAX_TEXT_LENGTH + MaxChunkOver)}

\* a service about to chunk a text
ChunkInit ==
    /\ SessionInit
    /\ is_available
    /\ max_bytes = MAX_AUDIO_BYTES_PER_SESSION
    /\ tts_pc = "idle"
    /\ tts_service = NoService
    /\ tts_request \in {[NoRequest EXCEPT !.text = text] : text \in ChunkTexts}
    /\ tts_call = NoCall
    /\ tts_result = NoResult
    /\ tts_singleton = NoInstance

\* chunks = self._chunk_text(text)
chunk_text ==
    /\ tts_pc = "idle"
    /\ tts_pc' = "chunked"
    /\ tts_call' = [tts_call EXCEPT !.chunks = _chunk_text(tts_request.text)]
    /\ UNCHANGED <<tts_service, tts_request, tts_result, tts_singleton>>
    /\ UNCHANGED stt_vars

ChunkNext == chunk_text

\* ChunkSpec: _chunk_text applied to every text of up to twice the limit
ChunkSpec == ChunkInit /\ [][ChunkNext]_vars

\* the languages the provider lists voices for
CatalogLanguages == {EN_US, EN_GB, FR_FR, FI_FI, FIL_PH}

\* the voices of a language, sorted as _load_all_voices sorts them
VoiceList(lang) ==
    CASE lang = EN_US -> <<"en-US-Wavenet-A", "en-US-Standard-A">>
      [] lang = EN_GB -> <<"en-GB-Wavenet-A", "en-GB-Standard-A">>
      [] lang = FR_FR -> <<"fr-FR-Wavenet-A">>
      [] lang = FI_FI -> <<"fi-FI-Wavenet-A">>
      [] lang = FIL_PH -> <<"fil-PH-Wavenet-A">>

\* the voice maps _load_all_voices can build: some of the languages, in any order
Catalogs ==
    {[i \in 1..Len(langs) |-> [lang |-> langs[i], voices |-> VoiceList(langs[i])]] :
        langs \in {l \in UNION {[1..n -> CatalogLanguages] : n \in 0..MaxCatalog} :
                      \A i, j \in 1..Len(l) : i # j => l[i] # l[j]}}

\* the language codes voices are asked for
RequestedLanguages == {EN_US, EN_GB, FR_FR, FI_FI, DE_DE}

\* a service with a voice map, about to select a voice
VoiceInit ==
    /\ SessionInit
    /\ is_available
    /\ max_bytes = MAX_AUDIO_BYTES_PER_SESSION
    /\ tts_pc = "idle"
    /\ tts_service \in {[is_available |-> TRUE, voice_map |-> voice_map,
                         translate_client |-> FALSE] : voice_map \in Catalogs}
    /\ tts_request \in {[NoRequest EXCEPT !.language_code = language_code] :
                           language_code \in RequestedLanguages}
    /\ tts_call = NoCall
    /\ tts_result = NoResult
    /\ tts_singleton = NoInstance

\* voice_name = self._select_voice_for_language(language_code)
select_voice ==
    /\ tts_pc = "idle"
    /\ tts_pc' = "selected"
    /\ tts_call' = [tts_call EXCEPT
           !.language_code = tts_request.language_code,
           !.voice_name = _select_voice_for_language(tts_service.voice_map,
                                                     tts_request.language_code)]
    /\ UNCHANGED <<tts_service, tts_request, tts_result, tts_singleton>>
    /\ UNCHANGED stt_vars

VoiceNext == select_voice

\* VoiceSpec: _select_voice_for_language applied to every voice map and language
VoiceSpec == VoiceInit /\ [][VoiceNext]_vars

\* one step of thread t in get_tts_service
SingletonStep(t, thread, instance, constructed) ==
    /\ tts_singleton' = [tts_singleton EXCEPT !.threads[t] = thread,
                                              !.instance = instance,
                                              !.constructed = constructed]
    /\ UNCHANGED <<tts_pc, tts_service, tts_request, tts_call, tts_result>>
    /\ UNCHANGED stt_vars

\* `if _tts_service_instance is None`
GetCheck(t) ==
    LET thread == tts_singleton.threads[t]
    IN /\ thread.pc = "idle"
       /\ SingletonStep(t, [thread EXCEPT !.pc = IF tts_singleton.instance = 0
                                                 THEN "constructing" ELSE "returning"],
                        tts_singleton.instance, tts_singleton.constructed)

\* TTSService(): a new instance is constructed (the voices are listed)
GetConstruct(t) ==
    LET thread == tts_singleton.threads[t]
    IN /\ thread.pc = "constructing"
       /\ SingletonStep(t, [thread EXCEPT !.pc = "assigning",
                                          !.local = tts_singleton.constructed + 1],
                        tts_singleton.instance, tts_singleton.constructed + 1)

\* `_tts_service_instance = ...`: the new instance is stored in the global
GetAssign(t) ==
    LET thread == tts_singleton.threads[t]
    IN /\ thread.pc = "assigning"
       /\ SingletonStep(t, [thread EXCEPT !.pc = "returning"],
                        thread.local, tts_singleton.constructed)

\* `return _tts_service_instance`
GetReturn(t) ==
    LET thread == tts_singleton.threads[t]
    IN /\ thread.pc = "returning"
       /\ SingletonStep(t, [thread EXCEPT !.pc = "returned",
                                          !.got = tts_singleton.instance],
                        tts_singleton.instance, tts_singleton.constructed)

SingletonNext ==
    \E t \in Threads : GetCheck(t) \/ GetConstruct(t) \/ GetAssign(t) \/ GetReturn(t)

\* SingletonSpec: the request threads call get_tts_service concurrently
SingletonSpec == TtsInit /\ [][SingletonNext]_vars

(***************************************************************************)
(* Properties.                                                             *)
(***************************************************************************)
RECURSIVE SumLen(_)
SumLen(frames) == IF frames = <<>> THEN 0 ELSE Head(frames).len + SumLen(Tail(frames))

ForwardedIds == [i \in 1..Len(forwarded) |-> forwarded[i].id]

\* the sentinel was delivered to audio_generator: the audio sequence is exhausted
AudioExhausted == ag_pc = "finished" /\ audio_queue = <<>>

Terminal == pc \in {"done", "raised", "abandoned"}

\* C1: results yielded while connection k is open carry stream_number k (1 for the
\* first connection), the reconnect notice that announces connection k+1 carries
\* k+1, and the numbers never decrease along the yielded sequence.
C1_StreamNumbers ==
    /\ \A i \in 1..Len(yielded) :
          yielded[i].stream_number =
              IF yielded[i].warning = WARN_RECONNECTED THEN yield_conn + 1 ELSE yield_conn
    /\ yielded # <<>> => prev_number <= yielded[1].stream_number
    /\ \A i \in 1..(Len(yielded) - 1) :
          yielded[i].stream_number <= yielded[i + 1].stream_number

\* C1 witness: a transcript yielded by the second connection, right after the
\* reconnect notice
C1_Witness ==
    /\ yielded # <<>>
    /\ yielded[1].stream_number = 2
    /\ yielded[1].transcript # ""
    /\ prev_number = 2
    /\ connections = 2

\* C2: the frames forwarded to the recognizer, over all generations of the
\* session, never add up to more than max_bytes.
C2_ForwardedWithinBudget == SumLen(forwarded) <= max_bytes

\* C2 witness: a frame was refused for the budget after others were forwarded, and
\* the session went on to a second connection
C2_Witness ==
    /\ gen_info.budget_hit
    /\ forwarded # <<>>
    /\ connections = 2
    /\ Len(pulled) > Len(forwarded)

\* C3 (as claimed): a generation that ends in a time-limit reconnect has yielded
\* the "will reconnect soon" warning before.
C3_TimeReconnectWarned == gen_info.cause = "time" => gen_info.warned

\* C4 (as claimed): a fault within the limit yields one error result with warning
\* "reconnecting" and one retry; when the retry generation faults too before any
\* result, the session is over (no further generation).
C4_SingleRetry ==
    /\ gen_info.cause = "fault" =>
          yielded = <<TranscriptionResult(FALSE, "", <<>>, stream_count,
                                          ERR_STREAM, WARN_RECONNECTING)>>
    /\ gen_info.fault_run >= 2 => Terminal

\* C5 (as claimed): after the recognizer reported itself unavailable or the caller
\* unauthenticated, the session is over (no further generation).
C5_RefusalFailsFast == gen_info.last_end = "refused" => Terminal

\* the first connection closed on its own, the audio being exhausted, before
\* `limit` had elapsed
FirstStreamEndedBefore(limit) ==
    /\ connections = 1
    /\ gen_info.last_end = "eos"
    /\ AudioExhausted
    /\ elapsed < limit

OneQuietGeneration ==
    /\ pc = "done"
    /\ stream_count = 1
    /\ ~gen_info.warnings
    /\ ~gen_info.errors

\* C6 (as claimed): when the audio is exhausted and the first connection closes on
\* its own before the time limit, the session is one generation, Completed, with
\* no warning and no error result.
C6_QuietBeforeLimit ==
    FirstStreamEndedBefore(max_duration_seconds) => OneQuietGeneration

\* C6 (amended): the same when the connection closes before the warning window,
\* i.e. before max_duration_seconds - 10 s have elapsed.
C6_QuietBeforeWarningWindow ==
    FirstStreamEndedBefore(max_duration_seconds - WARN_LEAD) => OneQuietGeneration

\* C6 witness: such a session, with audio forwarded and a transcript yielded
C6_Witness ==
    /\ FirstStreamEndedBefore(max_duration_seconds - WARN_LEAD)
    /\ forwarded # <<>>
    /\ yielded # <<>>
    /\ yielded[1].transcript # ""

\* C7 (as claimed): once request_generator has found the time limit reached with a
\* frame in hand, the session does not terminate in that generation.
C7_LimitMeansReconnect == gen_info.limit_hit => ~Terminal

\* C8 (as claimed): while the byte budget is not exhausted, the frames forwarded
\* are exactly the frames pulled, in order.
C8_NoFrameLost == total_bytes_received <= max_bytes => ForwardedIds = pulled

\* C9: a yielded result has words only if it was built from a recognizer result
\* that is final and carries words; warnings and errors have none.
C9_WordsOnlyFromFinal ==
    \A i \in 1..Len(yielded) :
        yielded[i].words # <<>> =>
            /\ i = 1
            /\ yielded[i].is_final
            /\ yielded[i].error = None
            /\ yielded[i].warning = None
            /\ gen_info.src.alternatives > 0
            /\ gen_info.src.is_final
            /\ gen_info.src.words # <<>>

\* C9 witness: a final result with word timings was yielded
C9_Witness ==
    /\ yielded # <<>>
    /\ yielded[1].words # <<>>

\* C10: the reader puts the sentinel exactly once, when it ends, whatever ends it,
\* and nothing after it.
C10_OneSentinel ==
    /\ sentinels_put <= 1
    /\ reader_pc = "done" <=> sentinels_put = 1
    /\ late_frames = 0
    /\ \A i \in 1..Len(audio_queue) : audio_queue[i] = Sentinel => i = Len(audio_queue)
    /\ (reader_pc = "done" /\ ~AudioExhausted) =>
          (audio_queue # <<>> /\ audio_queue[Len(audio_queue)] = Sentinel)

\* C10 witness: the reader ended because the consumer cancelled it
C10_Witness ==
    /\ reader_pc = "done"
    /\ ag_pc = "closing"
    /\ sentinels_put = 1

\* C11 (as claimed): when the session handler has returned, the reader task was
\* never started or has completed: it is not running and cannot put on the queue.
C11_ReaderStoppedBeforeReturn == handler_pc = "returned" => reader_pc # "receiving"

\* ---- text-to-speech
\* the generate_speech call has returned after calling the provider
Synthesized == tts_pc = "returned" /\ tts_call.sent # <<>>

\* the number of provider calls of the generate_speech call
ProviderCalls == Len(tts_call.sent)

\* C12 (as claimed): a text shorter than MAX_TEXT_LENGTH takes one provider call; a
\* text of exactly that length takes one call and is not chunked; a text one
\* character longer takes more than one call and is chunked.
C12_ChunkingThreshold ==
    Synthesized =>
        /\ Len(tts_request.text) < MAX_TEXT_LENGTH => ProviderCalls = 1
        /\ Len(tts_request.text) = MAX_TEXT_LENGTH =>
               (ProviderCalls = 1 /\ ~tts_result.was_chunked)
        /\ Len(tts_request.text) = MAX_TEXT_LENGTH + 1 =>
               (ProviderCalls > 1 /\ tts_result.was_chunked)

\* the text is longer than the chunk limit and shorter than twice the limit (4500
\* characters for a limit of 4000)
ScenarioC ==
    /\ Synthesized
    /\ Len(tts_request.text) > MAX_TEXT_LENGTH
    /\ Len(tts_request.text) < 2 * MAX_TEXT_LENGTH

\* C13 (as claimed): such a text is split into exactly two chunks, and when both
\* chunks have marks the second chunk's first merged mark is at least the gap
\* after the first chunk's last.
C13_TwoChunksWithGap ==
    ScenarioC =>
        /\ Len(tts_call.chunks) = 2
        /\ Len(tts_call.chunk_results) = 2
        /\ LET n1 == Len(tts_call.chunk_results[1].speech_marks)
               n2 == Len(tts_call.chunk_results[2].speech_marks)
           IN (n1 > 0 /\ n2 > 0) =>
                  tts_result.speech_marks[n1 + 1].timeSeconds >=
                      tts_result.speech_marks[n1].timeSeconds + INTER_CHUNK_GAP

\* the number of merged marks that come from the chunks before chunk k
RECURSIVE MarksBefore(_, _)
MarksBefore(chunk_results, k) ==
    IF k = 1 THEN 0
    ELSE MarksBefore(chunk_results, k - 1) + Len(chunk_results[k - 1].speech_marks)

\* C14: the marks of a merged result never go back in time, and the marks of each
\* chunk are its own marks shifted by the last merged time of the chunks before it
\* plus the gap (by nothing when no chunk before it has marks).
C14_MergedMarksMonotonic ==
    (tts_pc = "returned" /\ tts_result.was_chunked) =>
        LET marks == tts_result.speech_marks
            results == tts_call.chunk_results
        IN /\ \A i \in 1..(Len(marks) - 1) : marks[i].timeSeconds <= marks[i + 1].timeSeconds
           /\ \A k \in 1..Len(results) :
                 LET before == MarksBefore(results, k)
                     shift == IF before = 0 THEN 0
                              ELSE marks[before].timeSeconds + INTER_CHUNK_GAP
                 IN \A i \in 1..Len(results[k].speech_marks) :
                        /\ marks[before + i].value = results[k].speech_marks[i].value
                        /\ marks[before + i].timeSeconds =
                               results[k].speech_marks[i].timeSeconds + shift

\* C14 witness: a merged result of two chunks that both have marks
C14_Witness ==
    /\ tts_pc = "returned"
    /\ tts_result.was_chunked
    /\ Len(tts_call.chunk_results) = 2
    /\ tts_call.chunk_results[1].speech_marks # <<>>
    /\ tts_call.chunk_results[2].speech_marks # <<>>
    /\ Len(tts_result.speech_marks) = 4

\* C15 (as claimed): a returned result whose timepoints_available is false has no
\* speech marks.
C15_NoMarksWhenUnavailable ==
    tts_pc = "returned" => (~tts_result.timepoints_available => tts_result.speech_marks = <<>>)

\* C16 (as claimed): merging the list that holds the one chunk result of a call
\* gives the marks and the audio of that result, with was_chunked false.
C16_MergeOfOneIsNoOp ==
    (Synthesized /\ Len(tts_call.chunk_results) = 1) =>
        LET merged == _merge_chunked_results(tts_call.chunk_results)
        IN /\ merged.speech_marks = tts_call.chunk_results[1].speech_marks
           /\ merged.audio_content = tts_call.chunk_results[1].audio_content
           /\ ~merged.was_chunked

\* a failure result: no audio, no marks, an error
IsFailure(result) ==
    /\ result.audio_content = <<>>
    /\ result.speech_marks = <<>>
    /\ result.error # None

\* the catalogue has no voice for the language nor for another code of its base
NoCatalogVoice(language_code) ==
    \A i \in 1..Len(tts_service.voice_map) :
        /\ tts_service.voice_map[i].lang # language_code
        /\ tts_service.voice_map[i].lang[1] # language_code[1]

\* C17: the provider is called only by an available service with a voice; a call
\* to an unavailable service, or without explicit voice for a language that has no
\* catalogue voice, returns a failure result without any provider call.
C17_ProviderOnlyWhenResolved ==
    /\ tts_call.sent # <<>> => (tts_service.is_available /\ tts_call.voice_name # None)
    /\ (tts_pc \in {"synthesizing", "returned"}
            /\ (\/ ~tts_service.is_available
                \/ (tts_request.voice_name = None /\ NoCatalogVoice(tts_call.language_code))))
          => (tts_pc = "returned" /\ IsFailure(tts_result) /\ tts_call.sent = <<>>)

\* C17 witness: an available service that has voices, none for the language asked
C17_Witness ==
    /\ tts_pc = "returned"
    /\ tts_service.is_available
    /\ tts_service.voice_map # <<>>
    /\ tts_request.language_code = DE_DE
    /\ tts_result.error = ERR_NO_VOICE
    /\ tts_call.sent = <<>>

\* language "auto" with a text too short for detection, on an available service
\* that has a translate client
AutoShortText ==
    /\ tts_pc \in {"synthesizing", "returned"}
    /\ tts_service.is_available
    /\ tts_service.translate_client
    /\ tts_request.language_code = AUTO
    /\ Len(clean_markdown_formatting(tts_request.text)) < DETECT_MIN_LENGTH

\* C18 (as claimed): such a call resolves to en-US and a voice, and does not fail
\* for lack of a voice.
C18_AutoShortNeverFails ==
    AutoShortText =>
        /\ tts_call.language_code = EN_US
        /\ tts_result.error # ERR_NO_VOICE

\* the first voice the catalogue lists for English
EnglishVoice ==
    LET en == {i \in 1..Len(tts_service.voice_map) : tts_service.voice_map[i].lang[1] = "en"}
    IN tts_service.voice_map[CHOOSE i \in en : \A j \in en : i <= j].voices[1]

\* C18 (amended): such a call resolves to en-US; when the catalogue has an English
\* voice and no voice is named, it takes that voice and goes on to the provider;
\* when the catalogue has none, it returns the no-voice failure.
C18_AutoShortDefaultsToEnglish ==
    AutoShortText =>
        /\ tts_call.language_code = EN_US
        /\ (tts_request.voice_name = None /\ ~NoCatalogVoice(EN_US)) =>
               (tts_call.voice_name = EnglishVoice /\ tts_result.error # ERR_NO_VOICE)
        /\ (tts_request.voice_name = None /\ NoCatalogVoice(EN_US)) =>
               (tts_pc = "returned" /\ tts_result.error = ERR_NO_VOICE)

\* C18 witness: a two-character text, language "auto", a catalogue with French
\* and US English, and the audio returned
C18_Witness ==
    /\ AutoShortText
    /\ Len(strip(tts_request.text)) = 2
    /\ tts_request.voice_name = None
    /\ Len(tts_service.voice_map) = 2
    /\ tts_call.voice_name = "en-US-Wavenet-A"
    /\ tts_pc = "returned"
    /\ tts_result.audio_content # <<>>

\* C19 (as claimed): a returned result has an error if and only if it has no
\* audio, so that it is a success (with or without marks) or a failure.
C19_ThreeClasses ==
    tts_pc = "returned" => (tts_result.error # None <=> tts_result.audio_content = <<>>)

\* C20 (as claimed): the queue has a capacity that the frames of a session cannot
\* exceed: it never holds as many items as the client can send frames.
C20_QueueBounded == Len(audio_queue) < MaxFrames

\* ---- relay limits
\* the bytes of the frames the reader has put on the queue so far: those still
\* waiting and those the coordinator has pulled
EnqueuedBytes == SumLen(audio_queue) + total_bytes_received

\* the number of frames the reader has put on the queue so far
EnqueuedFrames ==
    Len(pulled) + Cardinality({i \in 1..Len(audio_queue) : audio_queue[i] # Sentinel})

\* C21: the relay sends limit_exceeded once, when its byte counter first exceeds
\* the maximum, and ends; every frame received before that one was put on the
\* queue, that one and later ones are not, so the bytes ever put on the queue are
\* at most the maximum.
C21_ByteLimitEndsRelay ==
    /\ limit_msgs <= 1
    /\ limit_msgs = 1 <=> reader_total > MAX_AUDIO_BYTES_PER_SESSION
    /\ limit_msgs = 1 => reader_pc = "done"
    /\ EnqueuedFrames = nframes - limit_msgs
    /\ late_frames = 0
    /\ EnqueuedBytes <= MAX_AUDIO_BYTES_PER_SESSION

\* C21 witness: the second frame crossed the limit after the first was put on
\* the queue
C21_Witness ==
    /\ limit_msgs = 1
    /\ nframes = 2
    /\ EnqueuedFrames = 1
    /\ reader_pc = "done"

\* C22: the relay ends on the idle test only when more than twice the heartbeat
\* interval has passed since the last frame; that end sends nothing to the caller
\* and puts the sentinel, last, on the queue.
C22_IdleEnd ==
    idle_end =>
        /\ idle > HEARTBEAT_INTERVAL * 2
        /\ reader_pc = "done"
        /\ generator_done
        /\ limit_msgs = 0
        /\ sentinels_put = 1
        /\ EnqueuedFrames = nframes
        /\ audio_queue # <<>> => audio_queue[Len(audio_queue)] = Sentinel

\* C22 witness: the relay ended for idleness after it had relayed a frame, the
\* client still connected
C22_Witness ==
    /\ idle_end
    /\ nframes > 0
    /\ ws_open
    /\ audio_queue # <<>>

\* ---- transcripts and session end
\* C23 (as claimed): the transcripts handed to the caller, followed by those of the
\* results of the current response still to be iterated, are the transcripts of
\* the recognizer's results that have an alternative and a non-empty transcript,
\* in the same order.
C23_EveryTranscriptDelivered ==
    handler_pc = "dispatching" =>
        gen_info.sent \o Transcripts(pending) = gen_info.recognized

\* C24 (as claimed): once request_generator has found the byte budget exceeded, the
\* coordinator does not go back to the top of its loop for a new generation: the
\* generation that met the budget is the last.
C24_BudgetEndsSession == gen_info.budget_hit => pc # "loop"

\* the relay's sentinel was put on the queue and audio_generator has taken it
SentinelConsumed == sentinels_put = 1 /\ audio_queue = <<>>

\* C28 (as claimed): once the end of the audio sequence is consumed, the
\* coordinator does not go back to the top of its loop for a new generation.
C28_NoGenerationAfterAudioEnd == SentinelConsumed => pc # "loop"

\* C30 (as claimed): no exception raised while a recognizer connection is handled
\* leaves transcribe_stream.
C30_NoExceptionEscapes == pc # "raised"

\* ---- chunking, voices, singleton
\* C25 (as claimed): every chunk _chunk_text returns is at most MAX_TEXT_LENGTH
\* characters long.
C25_ChunksWithinLimit ==
    tts_pc = "chunked" =>
        \A i \in 1..Len(tts_call.chunks) : Len(tts_call.chunks[i]) <= MAX_TEXT_LENGTH

\* the text without its whitespace
NoSpaces(text) == SelectSeq(text, LAMBDA c : ~IsSpace(c))

\* the chunks concatenated in order
RECURSIVE Concat(_)
Concat(chunks) == IF chunks = <<>> THEN <<>> ELSE Head(chunks) \o Concat(Tail(chunks))

\* C29 (as claimed): for a text longer than the limit, the chunks concatenated in
\* order are the text, whitespace apart.
C29_ChunkingLosesNoText ==
    (tts_pc = "chunked" /\ Len(tts_request.text) > MAX_TEXT_LENGTH) =>
        NoSpaces(Concat(tts_call.chunks)) = NoSpaces(tts_request.text)

\* the languages of the service's voice map
MapLanguages == {tts_service.voice_map[i].lang : i \in 1..Len(tts_service.voice_map)}

\* the voice is the first voice listed for one of the languages
FirstVoiceOf(voice, langs) ==
    \E i \in 1..Len(tts_service.voice_map) :
        /\ tts_service.voice_map[i].lang \in langs
        /\ voice = tts_service.voice_map[i].voices[1]

\* C26 (as claimed): the voice selected for language L is the first voice listed
\* for L when the catalogue has L; else the first voice of a catalogue language
\* with the base language of L; never a voice of another base language (none when
\* the catalogue has no language with that base).
C26_VoiceOfSameBaseLanguage ==
    tts_pc = "selected" =>
        LET L == tts_call.language_code
            voice == tts_call.voice_name
            same_base == {lang \in MapLanguages : BaseLang(lang) = BaseLang(L)}
        IN IF L \in MapLanguages THEN FirstVoiceOf(voice, {L})
           ELSE IF same_base # {} THEN FirstVoiceOf(voice, same_base)
           ELSE voice = None

\* the threads that have returned from get_tts_service
Returned == {t \in Threads : tts_singleton.threads[t].pc = "returned"}

\* C27 (as claimed): TTSService is constructed at most once, and all callers of
\* get_tts_service get the same instance.
C27_OneInstance ==
    /\ tts_singleton.constructed <= 1
    /\ \A t, u \in Returned : tts_singleton.threads[t].got = tts_singleton.threads[u].got

=============================================================================
